---- MODULE Spec2Model ----
(***************************************************************************)
(* NVH synthetic dataset generator (vehicle_master.py).                    *)
(*                                                                         *)
(* main() runs three generators in order, writes each table to a          *)
(* spreadsheet and prints a summary.  All randomness comes from two       *)
(* process-wide seeded generators (random and numpy.random); they are     *)
(* modelled as deterministic generators whose state is part of the        *)
(* program state, and the initial seed ranges over a bounded set.         *)
(*                                                                         *)
(* Conventions:                                                            *)
(*   - None is Null (the empty tuple); a present value v is Some(v);      *)
(*   - random.random() returns r/1000 for an integer r in 0..999, so a    *)
(*     probability p is the integer 1000*p;                               *)
(*   - floating point quantities (noise, vibration, harshness) are       *)
(*     integers in thousandths of their unit;                             *)
(*   - formatted text (identifiers, dates) is a TLA+ string built the way *)
(*     the format specification builds it.                                *)
(***************************************************************************)
EXTENDS Integers, Sequences, FiniteSets, TLC

VARIABLES pc, rng, np_rng, num_vehicles, i, vehicles, df_vehicles,
          measurements, df_measurements, feedbacks, df_feedback,
          locals, files, out

vars == <<pc, rng, np_rng, num_vehicles, i, vehicles, df_vehicles,
          measurements, df_measurements, feedbacks, df_feedback,
          locals, files, out>>

----------------------------------------------------------------------------
(* Bounds of the model *)

\* seeds 0..MaxSeed are tried in place of the one seed of the source
MaxSeed == 31
\* target vehicle counts 1..MaxVehicles are tried besides NUM_VEHICLES
MaxVehicles == 22
\* rows generated per run by the measurement and the feedback loop
MaxMeasurements == 5
MaxFeedback == 4

(* Configuration of the source *)
NUM_VEHICLES == 60
NUM_MEASUREMENTS == 800
NUM_FEEDBACK == 600

Min(a, b) == IF a <= b THEN a ELSE b

----------------------------------------------------------------------------
(* None and present values *)

Null == <<>>
Some(v) == <<v>>
IsNull(x) == x = <<>>
Val(x) == x[1]

----------------------------------------------------------------------------
(* Text: formatting, substring test, comparison *)

DigitStr == <<"0", "1", "2", "3", "4", "5", "6", "7", "8", "9">>

\* str(n) for n >= 0
RECURSIVE ToStr(_)
ToStr(n) == IF n < 10 THEN DigitStr[n + 1]
            ELSE ToStr(n \div 10) \o DigitStr[(n % 10) + 1]

RECURSIVE Zeros(_)
Zeros(k) == IF k <= 0 THEN "" ELSE "0" \o Zeros(k - 1)

\* format(n, '0<w>d'): zero-padded to at least w characters
ZeroPad(n, w) == Zeros(w - Len(ToStr(n))) \o ToStr(n)

\* Python's `sub in s`
Contains(s, sub) ==
    \E k \in 1..(Len(s) - Len(sub) + 1) : SubSeq(s, k, k + Len(sub) - 1) = sub

\* code points of the characters that occur in the formatted dates
Ord(c) == CASE c = " " -> 32
            [] c = "-" -> 45
            [] c = ":" -> 58
            [] OTHER -> 48 + (CHOOSE d \in 0..9 : DigitStr[d + 1] = c)

\* Python's str ordering a < b (lexicographic by code point)
RECURSIVE StrLess(_, _)
StrLess(a, b) ==
    IF Len(b) = 0 THEN FALSE
    ELSE IF Len(a) = 0 THEN TRUE
    ELSE IF Head(a) # Head(b) THEN Ord(Head(a)) < Ord(Head(b))
    ELSE StrLess(Tail(a), Tail(b))

\* min() and max() of a non-empty set of strings
StrMin(S) == CHOOSE a \in S : \A b \in S : ~StrLess(b, a)
StrMax(S) == CHOOSE a \in S : \A b \in S : ~StrLess(a, b)

----------------------------------------------------------------------------
(* Calendar: datetime + timedelta and strftime *)

IsLeap(y) == (y % 4 = 0 /\ y % 100 # 0) \/ y % 400 = 0
DaysInYear(y) == IF IsLeap(y) THEN 366 ELSE 365
DaysInMonth(y, m) == IF m = 2 THEN (IF IsLeap(y) THEN 29 ELSE 28)
                     ELSE IF m \in {4, 6, 9, 11} THEN 30 ELSE 31

RECURSIVE MonthDay(_, _, _)
MonthDay(y, m, n) ==
    IF n >= DaysInMonth(y, m) THEN MonthDay(y, m + 1, n - DaysInMonth(y, m))
    ELSE [year |-> y, month |-> m, day |-> n + 1]

\* datetime(y, 1, 1) + timedelta(days=n)
RECURSIVE AddDays(_, _)
AddDays(y, n) ==
    IF n >= DaysInYear(y) THEN AddDays(y + 1, n - DaysInYear(y))
    ELSE MonthDay(y, 1, n)

\* strftime('%Y-%m-%d')
FormatDate(d) ==
    ZeroPad(d.year, 4) \o "-" \o ZeroPad(d.month, 2) \o "-" \o ZeroPad(d.day, 2)

\* '%Y-%m-%d %H:%M:%S' from its components
FormatTimestamp(y, mo, d, h, mi, s) ==
    ZeroPad(y, 4) \o "-" \o ZeroPad(mo, 2) \o "-" \o ZeroPad(d, 2) \o " "
    \o ZeroPad(h, 2) \o ":" \o ZeroPad(mi, 2) \o ":" \o ZeroPad(s, 2)

----------------------------------------------------------------------------
(* The two seeded generators.  A generator state is an integer in         *)
(* 0..Modulus-1; every call advances the state once and derives its       *)
(* result from the new state.                                             *)

Modulus == 65536
Step(s) == (s * 25173 + 13849) % Modulus
NpStep(s) == (s * 4691 + 28411) % Modulus

\* random.seed(x) / np.random.seed(x)
Seed(x) == (x * 7919 + 104729) % Modulus
NpSeed(x) == (x * 6007 + 40487) % Modulus

\* an integer uniform in 0..n-1 from state s
Uniform(s, n) == (s * n) \div Modulus

\* random.random() * 1000
Random(s) == Uniform(s, 1000)
\* random.choice(seq)
Choice(seq, s) == seq[1 + Uniform(s, Len(seq))]
\* random.randint(a, b)
RandInt(a, b, s) == a + Uniform(s, b - a + 1)
\* random.uniform(a, b) in thousandths: a + (b - a) * random()
RandUniform(a, b, s) == 1000 * a + (b - a) * Random(s)

\* round(x, 2) and round(x, 1) of a value in thousandths (half to even)
RoundTo(x, unit) ==
    LET q == x \div unit
        r == x % unit
    IN  IF 2 * r > unit \/ (2 * r = unit /\ q % 2 = 1) THEN (q + 1) * unit
        ELSE q * unit

----------------------------------------------------------------------------
(* Tables: a DataFrame built from a list of dicts is the sequence of its  *)
(* rows; each row is a function from column labels to values.             *)

\* the column labels of a DataFrame (none when it has no rows)
Columns(df) == IF df = <<>> THEN {} ELSE DOMAIN df[1]
\* df[col].isna().sum()
NullCount(df, col) == Cardinality({k \in DOMAIN df : IsNull(df[k][col])})
\* the values of df[col].dropna()
NonNull(df, col) == {Val(df[k][col]) : k \in {j \in DOMAIN df : ~IsNull(df[j][col])}}
\* df.sample(1).iloc[0]: one row picked by numpy's generator (state s)
Sample(df, s) == df[1 + Uniform(s, Len(df))]

----------------------------------------------------------------------------
(* TABLE 1: generate_vehicle_master *)

vehicle_models == << "Commuter Bike A1", "Commuter Bike A2", "Cruiser B1",
                     "Cruiser B2", "Sport Bike C1", "Naked Bike D1",
                     "Adventure Bike E1", "Superbike F1", "Electric Bike G1",
                     "Hybrid Bike H1" >>
manufacturers == <<"AutoCorp", "VehicleTech", "MotorWorks", "DriveMax">>

\* null probabilities of the vehicle fields (per mille)
NULL_VEHICLE_MODEL == 50
NULL_MANUFACTURER == 80
NULL_ENGINE_TYPE == 60
NULL_MANUFACTURING_DATE == 70

\* `value if random.random() > p else None` with the draw taken from state s
Keep(s, p) == Random(s) > p

\* variant of EngineFor that misses the electric models
EngineFor_NoElectric(model, s) ==
    IF Contains(model, "Hybrid") THEN [v |-> "Hybrid", s |-> s]
    ELSE [v |-> Choice(<<"Gasoline", "Diesel">>, Step(s)), s |-> Step(s)]

\* engine type derived from the model name; one extra draw when it is
\* neither an electric nor a hybrid model
EngineFor(model, s) ==
    IF Contains(model, "Electric") THEN [v |-> "Electric", s |-> s]
    ELSE IF Contains(model, "Hybrid") THEN [v |-> "Hybrid", s |-> s]
    ELSE [v |-> Choice(<<"Gasoline", "Diesel">>, Step(s)), s |-> Step(s)]

\* f'VEH{n:04d}'
VehicleId(n) == "VEH" \o ZeroPad(n, 4)

\* the dict of one base vehicle (loop body, lines 39-55); s is the
\* generator state before the body, the result carries the state after it
VehicleRow(n, s) ==
    LET s1 == Step(s)
        model == Choice(vehicle_models, s1)
        eng == EngineFor(model, s1)
        s3 == Step(eng.s)
        s4 == Step(s3)
        s5 == IF Keep(s4, NULL_MANUFACTURER) THEN Step(s4) ELSE s4
        s6 == Step(s5)
        s7 == Step(s6)
        s8 == IF Keep(s7, NULL_MANUFACTURING_DATE) THEN Step(s7) ELSE s7
    IN  [row |->
            ("Vehicle ID" :> Some(VehicleId(n)))
         @@ ("Vehicle Model" :>
                IF Keep(s3, NULL_VEHICLE_MODEL) THEN Some(model) ELSE Null)
         @@ ("Manufacturer" :>
                IF Keep(s4, NULL_MANUFACTURER)
                THEN Some(Choice(manufacturers, s5)) ELSE Null)
         @@ ("Engine Type" :>
                IF Keep(s6, NULL_ENGINE_TYPE) THEN Some(eng.v) ELSE Null)
         @@ ("Manufacturing Date" :>
                IF Keep(s7, NULL_MANUFACTURING_DATE)
                THEN Some(FormatDate(AddDays(2020, RandInt(0, 1460, s8))))
                ELSE Null),
         rng |-> s8]

\* variant of NumDuplicates that rounds up
NumDuplicates_RoundUp(n) == (n * 10 + 99) \div 100

\* int(NUM_VEHICLES * 0.10).  The double nearest to 0.10 exceeds 1/10 by
\* less than 2^-57, so for every count below 2^31 the truncated product is
\* the integer quotient computed here.
NumDuplicates(n) == (n * 10) \div 100

\* variant of CopyRow that does not carry the identifier over
CopyRow_PlaceholderId(row) ==
    [c \in DOMAIN row |-> IF c = "Vehicle ID" THEN Some("VEH0000") ELSE row[c]]

\* random.choice(vehicles).copy(): the index picked and the copied row
PickDuplicate(vs, s) == 1 + Uniform(s, Len(vs))
CopyRow(row) == [c \in DOMAIN row |-> row[c]]

----------------------------------------------------------------------------
(* TABLE 2: generate_nvh_measurements *)

test_conditions == <<"City Driving", "Highway Driving", "Rough Road",
                     "Smooth Road", "Acceleration", "Braking", "Idling">>
road_surfaces == <<"Asphalt", "Concrete", "Gravel", "Cobblestone", "Test Track">>

\* probability of the anomalous date branch and null probabilities of the
\* measurement fields (per mille), as the conditions of the code state them
ANOMALOUS_DATE == 10
NULL_MEASUREMENT_DATE == 30
NULL_ROAD_SURFACE == 60
NULL_SPEED == 50
NULL_NOISE_LEVEL == 30
NULL_VIBRATION_FREQUENCY == 10
NULL_HARSHNESS_SCORE == 10

\* lines 88-98: base noise by test condition (a draw only in five branches)
BaseNoise(tc, s) ==
    IF tc = "City Driving" THEN [v |-> RandUniform(65, 75, Step(s)), s |-> Step(s)]
    ELSE IF tc = "Highway Driving" THEN [v |-> RandUniform(70, 80, Step(s)), s |-> Step(s)]
    ELSE IF tc = "Rough Road" THEN [v |-> RandUniform(75, 90, Step(s)), s |-> Step(s)]
    ELSE IF tc = "Acceleration" THEN [v |-> RandUniform(80, 95, Step(s)), s |-> Step(s)]
    ELSE IF tc = "Idling" THEN [v |-> RandUniform(40, 55, Step(s)), s |-> Step(s)]
    ELSE [v |-> 60000, s |-> s]

\* lines 101-107: base vibration frequency by road surface
BaseVibFreq(rs, s) ==
    IF rs \in {"Gravel", "Cobblestone"} THEN [v |-> RandUniform(80, 200, Step(s)), s |-> Step(s)]
    ELSE IF rs = "Asphalt" THEN [v |-> RandUniform(30, 80, Step(s)), s |-> Step(s)]
    ELSE [v |-> RandUniform(40, 120, Step(s)), s |-> Step(s)]

\* variant of SpeedFor that draws a speed for every test condition
SpeedFor_AlwaysDrawn(tc, s) == [v |-> RandInt(15, 120, Step(s)), s |-> Step(s)]

\* line 110: speed
SpeedFor(tc, s) ==
    IF tc # "Idling" THEN [v |-> RandInt(15, 120, Step(s)), s |-> Step(s)]
    ELSE [v |-> 0, s |-> s]

\* lines 113-119: harshness by road surface and base noise
HarshnessFor(rs, base_noise, s) ==
    IF rs \in {"Gravel", "Cobblestone"} THEN [v |-> RandUniform(6, 9, Step(s)), s |-> Step(s)]
    ELSE IF base_noise > 80000 THEN [v |-> RandUniform(6, 8, Step(s)), s |-> Step(s)]
    ELSE [v |-> RandUniform(2, 6, Step(s)), s |-> Step(s)]

\* lines 124-130: an inconsistent date string; s is the state after the
\* draw that chose the branch
AnomalousDate(s) ==
    LET s1 == Step(s)
        inconsistent_type == Choice(<<"future_year", "far_future_year">>, s1)
    IN  IF inconsistent_type = "future_year"
        THEN LET s2 == Step(s1)
                 s3 == Step(s2)
                 s4 == Step(s3)
                 s5 == Step(s4)
             IN  [v |-> Some(FormatTimestamp(2029, RandInt(1, 12, s2), RandInt(1, 28, s3),
                                             RandInt(0, 23, s4), RandInt(0, 59, s5), 0)),
                  s |-> s5]
        ELSE LET s2 == Step(s1)
                 s3 == Step(s2)
                 s4 == Step(s3)
                 s5 == Step(s4)
                 s6 == Step(s5)
             IN  [v |-> Some(FormatTimestamp(Choice(<<2080, 2090, 2099>>, s2),
                                             RandInt(1, 12, s3), RandInt(1, 28, s4),
                                             RandInt(0, 23, s5), RandInt(0, 59, s6), 0)),
                  s |-> s6]

\* variant of NormalDate with day offsets over three years
NormalDate_ThreeYears(s) ==
    LET s1 == Step(s)
        s2 == Step(s1)
        s3 == Step(s2)
        d == AddDays(2023, RandInt(0, 1095, s2))
    IN  IF Keep(s1, NULL_MEASUREMENT_DATE)
        THEN [v |-> Some(FormatTimestamp(d.year, d.month, d.day, RandInt(0, 23, s3), 0, 0)),
              s |-> s3]
        ELSE [v |-> Null, s |-> s1]

\* line 133: a normal date, or None; the null draw comes first, the day and
\* hour offsets are drawn only when the date is kept
NormalDate(s) ==
    LET s1 == Step(s)
        s2 == Step(s1)
        s3 == Step(s2)
        d == AddDays(2023, RandInt(0, 730, s2))
    IN  IF Keep(s1, NULL_MEASUREMENT_DATE)
        THEN [v |-> Some(FormatTimestamp(d.year, d.month, d.day, RandInt(0, 23, s3), 0, 0)),
              s |-> s3]
        ELSE [v |-> Null, s |-> s1]

\* lines 121-133: the branch is taken when random.random() < 0.01
MeasurementDate(s) ==
    LET s1 == Step(s)
        anomalous == Random(s1) < ANOMALOUS_DATE
        r == IF anomalous THEN AnomalousDate(s1) ELSE NormalDate(s1)
    IN  [v |-> r.v, s |-> r.s, anomalous |-> anomalous]

\* f'MEAS{n:05d}'
MeasurementId(n) == "MEAS" \o ZeroPad(n, 5)

\* the dict of lines 135-144.  tc, rs, noise, vib, speed, harsh, date are the
\* locals computed before it; s is the state before the dict is built.  The
\* result carries the draws that decided each null and the state after.
MeasurementDict(n, vehicle, tc, rs, noise, vib, speed, harsh, date, s) ==
    LET s1 == Step(s)
        s2 == Step(s1)
        s3 == Step(s2)
        s4 == IF Keep(s3, NULL_NOISE_LEVEL) THEN Step(s3) ELSE s3
        s5 == Step(s4)
        s6 == Step(s5)
    IN  [row |->
            ("Measurement ID" :> Some(MeasurementId(n)))
         @@ ("Vehicle ID" :> vehicle["Vehicle ID"])
         @@ ("Measurement Date" :> date)
         @@ ("Road Surface" :> IF Keep(s1, NULL_ROAD_SURFACE) THEN Some(rs) ELSE Null)
         @@ ("Speed (KMH)" :> IF Keep(s2, NULL_SPEED) THEN Some(speed) ELSE Null)
         @@ ("Noise Level (dB)" :>
                IF Keep(s3, NULL_NOISE_LEVEL)
                THEN Some(RoundTo(noise + RandUniform(-3, 3, s4), 10)) ELSE Null)
         @@ ("Vibration Frequency (Hz)" :>
                IF Keep(s5, NULL_VIBRATION_FREQUENCY) THEN Some(RoundTo(vib, 10)) ELSE Null)
         @@ ("Harshness Score" :>
                IF Keep(s6, NULL_HARSHNESS_SCORE) THEN Some(RoundTo(harsh, 100)) ELSE Null),
         draws |->
            ("Road Surface" :> Random(s1))
         @@ ("Speed (KMH)" :> Random(s2))
         @@ ("Noise Level (dB)" :> Random(s3))
         @@ ("Vibration Frequency (Hz)" :> Random(s5))
         @@ ("Harshness Score" :> Random(s6)),
         s |-> s6]

\* one iteration of the loop of lines 82-145 for the row number n (from 1):
\* the row, the locals of the iteration and both generator states after it
MeasurementRow(n, df, s, ns) ==
    LET ns1 == NpStep(ns)
        vehicle == Sample(df, ns1)
        s1 == Step(s)
        test_condition == Choice(test_conditions, s1)
        s2 == Step(s1)
        road_surface == Choice(road_surfaces, s2)
        noise == BaseNoise(test_condition, s2)
        vib == BaseVibFreq(road_surface, noise.s)
        speed == SpeedFor(test_condition, vib.s)
        harsh == HarshnessFor(road_surface, noise.v, speed.s)
        date == MeasurementDate(harsh.s)
        d == MeasurementDict(n, vehicle, test_condition, road_surface, noise.v,
                             vib.v, speed.v, harsh.v, date.v, date.s)
    IN  [row |-> d.row,
         rng |-> d.s,
         np_rng |-> ns1,
         locals |-> [fn |-> "generate_nvh_measurements",
                     test_condition |-> test_condition,
                     road_surface |-> road_surface,
                     base_noise |-> noise.v,
                     base_vib_freq |-> vib.v,
                     speed |-> speed.v,
                     harshness |-> harsh.v,
                     anomalous |-> date.anomalous,
                     measurement_date |-> date.v,
                     draws |-> d.draws]]

----------------------------------------------------------------------------
(* TABLE 3: generate_customer_feedback *)

comments_positive == <<
    "Very smooth and quiet ride, excellent NVH performance",
    "Minimal cabin noise even at highway speeds",
    "Comfortable ride with well-damped suspension",
    "Engine operates quietly and smoothly",
    "Excellent noise insulation throughout the cabin",
    "Ride quality is impressive with minimal vibrations",
    "Very pleased with the overall refinement",
    "Smooth operation with excellent sound dampening" >>

comments_neutral == <<
    "Acceptable noise levels for the price range",
    "Ride comfort is adequate for daily commuting",
    "Some road noise on rough surfaces but manageable",
    "Average NVH performance compared to competitors",
    "Satisfactory overall, minor vibrations at idle" >>

comments_negative == <<
    "Excessive engine noise during acceleration",
    "Uncomfortable vibrations felt through steering wheel",
    "Road noise is too loud on highway",
    "Harsh ride over bumps and rough roads",
    "Engine vibrations noticeable in the cabin",
    "Wind noise at high speeds is intrusive",
    "Dashboard rattles over rough surfaces",
    "Seat vibrations make long drives uncomfortable",
    "Poor noise insulation, tire noise is excessive",
    "Steering wheel vibrates excessively" >>

comfort_levels == <<"Very Poor", "Poor", "Fair", "Good", "Very Good", "Excellent">>

NULL_COMFORT_LEVEL == 150
NULL_COMMENT == 100

\* variant of CommentPool whose first test misses "Very Good"
CommentPool_MissesVeryGood(comfort_level) ==
    IF comfort_level \in {"Excellent"} THEN comments_positive
    ELSE IF comfort_level \in {"Good", "Fair"} THEN comments_neutral
    ELSE comments_negative

\* lines 203-208: the pool the comment is chosen from
CommentPool(comfort_level) ==
    IF comfort_level \in {"Excellent", "Very Good"} THEN comments_positive
    ELSE IF comfort_level \in {"Good", "Fair"} THEN comments_neutral
    ELSE comments_negative

\* f'FB{n:05d}'
FeedbackId(n) == "FB" \o ZeroPad(n, 5)

\* one iteration of the loop of lines 196-216 for the row number n (from 1)
FeedbackRow(n, df, s, ns) ==
    LET ns1 == NpStep(ns)
        vehicle == Sample(df, ns1)
        s1 == Step(s)
        comfort_level == Choice(comfort_levels, s1)
        s2 == Step(s1)
        comment == Choice(CommentPool(comfort_level), s2)
        s3 == Step(s2)
        s4 == Step(s3)
    IN  [row |->
            ("Feedback ID" :> Some(FeedbackId(n)))
         @@ ("Vehicle ID" :> vehicle["Vehicle ID"])
         @@ ("Comfort Level" :>
                IF Keep(s3, NULL_COMFORT_LEVEL) THEN Some(comfort_level) ELSE Null)
         @@ ("Comment" :> IF Keep(s4, NULL_COMMENT) THEN Some(comment) ELSE Null),
         rng |-> s4,
         np_rng |-> ns1,
         locals |-> [fn |-> "generate_customer_feedback",
                     comfort_level |-> comfort_level,
                     comment |-> comment]]

----------------------------------------------------------------------------
(* main and the loops of the generators, one action per step *)

FILES == {"Vehicle.xlsx", "NVH_Measurements.xlsx", "Customer_Feedback.xlsx"}

Init ==
    /\ pc = "start"
    /\ \E seed \in 0..MaxSeed : rng = Seed(seed) /\ np_rng = NpSeed(seed)
    /\ num_vehicles \in (1..MaxVehicles) \cup {NUM_VEHICLES}
    /\ i = 0
    /\ vehicles = <<>> /\ df_vehicles = <<>>
    /\ measurements = <<>> /\ df_measurements = <<>>
    /\ feedbacks = <<>> /\ df_feedback = <<>>
    /\ locals = [fn |-> "main"]
    /\ files = [f \in {} |-> <<>>]
    /\ out = <<>>

\* lines 229-235: banner, then the call of generate_vehicle_master
Start ==
    /\ pc = "start"
    /\ out' = out \o << <<"banner">>, <<"[1/3] Generating Vehicle Master Data...">> >>
    /\ i' = 1
    /\ vehicles' = <<>>
    /\ locals' = [fn |-> "generate_vehicle_master"]
    /\ pc' = "gen_vehicles"
    /\ UNCHANGED <<rng, np_rng, num_vehicles, df_vehicles, measurements,
                   df_measurements, feedbacks, df_feedback, files>>

\* one iteration of `for i in range(1, NUM_VEHICLES + 1)`
VehicleBaseRow ==
    /\ pc = "gen_vehicles"
    /\ i <= num_vehicles
    /\ LET r == VehicleRow(i, rng)
       IN  /\ vehicles' = Append(vehicles, r.row)
           /\ rng' = r.rng
    /\ i' = i + 1
    /\ UNCHANGED <<pc, np_rng, num_vehicles, df_vehicles, measurements,
                   df_measurements, feedbacks, df_feedback, locals, files, out>>

\* the loop is exhausted: num_duplicates is computed
VehicleBaseDone ==
    /\ pc = "gen_vehicles"
    /\ i > num_vehicles
    /\ locals' = [fn |-> "generate_vehicle_master",
                  num_duplicates |-> NumDuplicates(num_vehicles),
                  picked |-> 0]
    /\ i' = 0
    /\ pc' = "gen_duplicates"
    /\ UNCHANGED <<rng, np_rng, num_vehicles, vehicles, df_vehicles,
                   measurements, df_measurements, feedbacks, df_feedback,
                   files, out>>

\* one iteration of `for _ in range(num_duplicates)`
VehicleDuplicate ==
    /\ pc = "gen_duplicates"
    /\ i < locals.num_duplicates
    /\ LET s1 == Step(rng)
           k == PickDuplicate(vehicles, s1)
       IN  /\ vehicles' = Append(vehicles, CopyRow(vehicles[k]))
           /\ locals' = [locals EXCEPT !.picked = k]
           /\ rng' = s1
    /\ i' = i + 1
    /\ UNCHANGED <<pc, np_rng, num_vehicles, df_vehicles, measurements,
                   df_measurements, feedbacks, df_feedback, files, out>>

\* lines 65-66: the table is returned to main
VehicleReturn ==
    /\ pc = "gen_duplicates"
    /\ i >= locals.num_duplicates
    /\ df_vehicles' = vehicles
    /\ pc' = "write_vehicles"
    /\ UNCHANGED <<rng, np_rng, num_vehicles, i, vehicles, measurements,
                   df_measurements, feedbacks, df_feedback, locals, files, out>>

\* df.to_excel(name): the write succeeds, or raises and ends the run; on
\* success the two lines after it are printed
ToExcel(name, df, count_label, ok) ==
    IF ok
    THEN /\ files' = (name :> df) @@ files
         /\ out' = out \o << <<count_label, Len(df)>>, <<"Saved to", name>> >>
    ELSE /\ pc' = "aborted"
         /\ locals' = [fn |-> "main", error |-> "OSError", at |-> name]
         /\ UNCHANGED <<files, out, i, measurements, feedbacks>>

\* lines 236-242: Vehicle.xlsx is written, then generate_nvh_measurements
\* is called
WriteVehicles ==
    /\ pc = "write_vehicles"
    /\ \E ok \in BOOLEAN :
         /\ ToExcel("Vehicle.xlsx", df_vehicles, "Generated vehicle records", ok)
         /\ ok => /\ pc' = "gen_measurements"
                  /\ i' = 0
                  /\ measurements' = <<>>
                  /\ locals' = [fn |-> "generate_nvh_measurements"]
                  /\ UNCHANGED feedbacks
    /\ UNCHANGED <<rng, np_rng, num_vehicles, vehicles, df_vehicles,
                   df_measurements, df_feedback>>

\* one iteration of `for i in range(NUM_MEASUREMENTS)`
MeasurementStep ==
    /\ pc = "gen_measurements"
    /\ i < Min(NUM_MEASUREMENTS, MaxMeasurements)
    /\ LET r == MeasurementRow(i + 1, df_vehicles, rng, np_rng)
       IN  /\ measurements' = Append(measurements, r.row)
           /\ locals' = r.locals
           /\ rng' = r.rng
           /\ np_rng' = r.np_rng
    /\ i' = i + 1
    /\ UNCHANGED <<pc, num_vehicles, vehicles, df_vehicles, df_measurements,
                   feedbacks, df_feedback, files, out>>

\* lines 147-149: the table is returned to main
MeasurementReturn ==
    /\ pc = "gen_measurements"
    /\ i >= Min(NUM_MEASUREMENTS, MaxMeasurements)
    /\ df_measurements' = measurements
    /\ pc' = "write_measurements"
    /\ UNCHANGED <<rng, np_rng, num_vehicles, i, vehicles, df_vehicles,
                   measurements, feedbacks, df_feedback, locals, files, out>>

\* lines 243-249: NVH_Measurements.xlsx is written, then
\* generate_customer_feedback is called
WriteMeasurements ==
    /\ pc = "write_measurements"
    /\ \E ok \in BOOLEAN :
         /\ ToExcel("NVH_Measurements.xlsx", df_measurements,
                    "Generated measurement records", ok)
         /\ ok => /\ pc' = "gen_feedback"
                  /\ i' = 0
                  /\ feedbacks' = <<>>
                  /\ locals' = [fn |-> "generate_customer_feedback"]
                  /\ UNCHANGED measurements
    /\ UNCHANGED <<rng, np_rng, num_vehicles, vehicles, df_vehicles,
                   df_measurements, df_feedback>>

\* one iteration of `for i in range(NUM_FEEDBACK)`
FeedbackStep ==
    /\ pc = "gen_feedback"
    /\ i < Min(NUM_FEEDBACK, MaxFeedback)
    /\ LET r == FeedbackRow(i + 1, df_vehicles, rng, np_rng)
       IN  /\ feedbacks' = Append(feedbacks, r.row)
           /\ locals' = r.locals
           /\ rng' = r.rng
           /\ np_rng' = r.np_rng
    /\ i' = i + 1
    /\ UNCHANGED <<pc, num_vehicles, vehicles, df_vehicles, measurements,
                   df_measurements, df_feedback, files, out>>

\* lines 218-219: the table is returned to main
FeedbackReturn ==
    /\ pc = "gen_feedback"
    /\ i >= Min(NUM_FEEDBACK, MaxFeedback)
    /\ df_feedback' = feedbacks
    /\ pc' = "write_feedback"
    /\ UNCHANGED <<rng, np_rng, num_vehicles, i, vehicles, df_vehicles,
                   measurements, df_measurements, feedbacks, locals, files, out>>

\* lines 250-252: Customer_Feedback.xlsx is written
WriteFeedback ==
    /\ pc = "write_feedback"
    /\ \E ok \in BOOLEAN :
         /\ ToExcel("Customer_Feedback.xlsx", df_feedback,
                    "Generated feedback records", ok)
         /\ ok => /\ pc' = "summary"
                  /\ locals' = [fn |-> "main"]
                  /\ UNCHANGED <<i, measurements, feedbacks>>
    /\ UNCHANGED <<rng, np_rng, num_vehicles, vehicles, df_vehicles,
                   df_measurements, df_feedback>>

----------------------------------------------------------------------------
(* The summary of lines 254-292.  A summary line is printed by one print  *)
(* call whose f-string looks columns up by label; a label that is not a   *)
(* column of the table raises KeyError before anything of that line is    *)
(* printed, and the exception ends the run.                               *)

\* df[col].nunique()
NUnique(df, col) == Cardinality(NonNull(df, col))
\* len(df) - df.drop_duplicates().shape[0]
DuplicateRows(df) == Len(df) - Cardinality({df[k] : k \in DOMAIN df})

RECURSIVE SumCol(_, _, _)
SumCol(df, col, k) ==
    IF k = 0 THEN 0
    ELSE SumCol(df, col, k - 1) + (IF IsNull(df[k][col]) THEN 0 ELSE Val(df[k][col]))
\* df[col].mean(): the mean of the non-null values, None (nan) without any
Mean(df, col) ==
    IF NullCount(df, col) = Len(df) THEN Null
    ELSE Some(SumCol(df, col, Len(df)) \div (Len(df) - NullCount(df, col)))

\* variant of DateRange that leaves out the dates of 2029 and later
DateRange_SkipsFuture(df, col) ==
    LET normal == {d \in NonNull(df, col) : StrLess(SubSeq(d, 1, 4), "2029")}
    IN  IF normal = {} THEN <<Null, Null>>
        ELSE <<Some(StrMin(normal)), Some(StrMax(normal))>>

\* df[col].dropna().min() and .max(): the extremes of the non-null
\* entries in str order, None (nan) without any
DateRange(df, col) ==
    IF NonNull(df, col) = {} THEN <<Null, Null>>
    ELSE <<Some(StrMin(NonNull(df, col))), Some(StrMax(NonNull(df, col)))>>

\* df[col].value_counts(): the count of each non-null value
ValueCounts(df, col) ==
    [v \in NonNull(df, col) |-> Cardinality({k \in DOMAIN df : df[k][col] = Some(v)})]

\* the table a summary line reads
Table(name) == CASE name = "df_vehicles" -> df_vehicles
                 [] name = "df_measurements" -> df_measurements
                 [] name = "df_feedback" -> df_feedback

\* the print calls of lines 255-292 in order: the table each reads and the
\* column labels it looks up
SummaryLines == <<
    [label |-> "DATASET SUMMARY", table |-> "df_vehicles", columns |-> {}],
    [label |-> "Vehicle Master Data:", table |-> "df_vehicles", columns |-> {}],
    [label |-> "Total Vehicles", table |-> "df_vehicles", columns |-> {}],
    [label |-> "Unique VehicleIDs", table |-> "df_vehicles", columns |-> {"Vehicle ID"}],
    [label |-> "Duplicate Rows", table |-> "df_vehicles", columns |-> {}],
    [label |-> "Unique Models", table |-> "df_vehicles", columns |-> {"Vehicle Model"}],
    [label |-> "Engine Types", table |-> "df_vehicles", columns |-> {"Engine Type"}],
    [label |-> "Vehicle Null Values", table |-> "df_vehicles",
     columns |-> {"Vehicle Model", "Manufacturer", "Engine Type", "Manufacturing Date"}],
    [label |-> "NVH Measurements:", table |-> "df_measurements", columns |-> {}],
    [label |-> "Total Measurements", table |-> "df_measurements", columns |-> {}],
    [label |-> "Date Range", table |-> "df_measurements",
     columns |-> {"Measurement Date"}],
    [label |-> "Avg Noise Level", table |-> "df_measurements",
     columns |-> {"Noise Level(dB)"}],
    [label |-> "Avg Vibration Frequency", table |-> "df_measurements",
     columns |-> {"Vibration Frequency(Hz)"}],
    [label |-> "Avg Harshness Score", table |-> "df_measurements",
     columns |-> {"Harshness Score"}],
    [label |-> "Measurement Null Values", table |-> "df_measurements",
     columns |-> {"Measurement Date", "Road Surface", "Speed(km/h)", "Noise Level(dB)",
                  "Vibration Frequency(Hz)", "Harshness Score"}],
    [label |-> "Customer Feedback:", table |-> "df_feedback", columns |-> {}],
    [label |-> "Total Feedbacks", table |-> "df_feedback", columns |-> {}],
    [label |-> "Comfort Level Distribution", table |-> "df_feedback",
     columns |-> {"Comfort Level"}],
    [label |-> "Feedback Null Values", table |-> "df_feedback",
     columns |-> {"Comfort Level", "Comment"}],
    [label |-> "All datasets generated successfully!", table |-> "df_feedback",
     columns |-> {}],
    [label |-> "NEXT STEPS", table |-> "df_feedback", columns |-> {}] >>

\* what a line prints
LineValue(line) ==
    LET df == Table(line.table)
    IN  CASE line.label \in {"Total Vehicles", "Total Measurements", "Total Feedbacks"}
                -> Len(df)
          [] line.label = "Unique VehicleIDs" -> NUnique(df, "Vehicle ID")
          [] line.label = "Duplicate Rows" -> DuplicateRows(df)
          [] line.label = "Unique Models" -> NUnique(df, "Vehicle Model")
          [] line.label = "Engine Types" -> NonNull(df, "Engine Type")
          [] line.label = "Date Range" -> DateRange(df, "Measurement Date")
          [] line.label = "Avg Noise Level" -> Mean(df, "Noise Level(dB)")
          [] line.label = "Avg Vibration Frequency" -> Mean(df, "Vibration Frequency(Hz)")
          [] line.label = "Avg Harshness Score" -> Mean(df, "Harshness Score")
          [] line.label = "Comfort Level Distribution" -> ValueCounts(df, "Comfort Level")
          [] OTHER -> [c \in line.columns |-> NullCount(df, c)]

\* df[label] succeeds for every label the line looks up
LooksUpColumns(line) == line.columns \subseteq Columns(Table(line.table))

\* the first print call that looks up a label its table has no column for
\* (0 when there is none): df[label] raises KeyError there
FirstKeyError(lines) ==
    IF \A k \in DOMAIN lines : LooksUpColumns(lines[k]) THEN 0
    ELSE CHOOSE k \in DOMAIN lines :
            /\ ~LooksUpColumns(lines[k])
            /\ \A j \in 1..(k - 1) : LooksUpColumns(lines[j])

\* lines 254-292: the summary is printed line by line; a KeyError ends the
\* run where it is raised, with the lines before it printed
Summary ==
    /\ pc = "summary"
    /\ LET e == FirstKeyError(SummaryLines)
           n == IF e = 0 THEN Len(SummaryLines) ELSE e - 1
       IN  /\ out' = out \o [k \in 1..n |->
                                <<SummaryLines[k].label, LineValue(SummaryLines[k])>>]
           /\ IF e = 0
              THEN pc' = "done" /\ UNCHANGED locals
              ELSE /\ pc' = "aborted"
                   /\ locals' = [fn |-> "main", error |-> "KeyError",
                                 at |-> SummaryLines[e].label]
    /\ UNCHANGED <<rng, np_rng, num_vehicles, i, vehicles, df_vehicles,
                   measurements, df_measurements, feedbacks, df_feedback, files>>

Next == \/ Start
        \/ VehicleBaseRow
        \/ VehicleBaseDone
        \/ VehicleDuplicate
        \/ VehicleReturn
        \/ WriteVehicles
        \/ MeasurementStep
        \/ MeasurementReturn
        \/ WriteMeasurements
        \/ FeedbackStep
        \/ FeedbackReturn
        \/ WriteFeedback
        \/ Summary

Spec == Init /\ [][Next]_vars

----------------------------------------------------------------------------
(* Properties *)

\* the value printed on the summary line with this label (the line is in out)
Printed(label) == {k \in DOMAIN out : out[k][1] = label}
PrintedValue(label) == out[CHOOSE k \in Printed(label) : TRUE][2]

\* the locals are those of a finished iteration of the measurement loop
InMeasurementLoop == pc = "gen_measurements" /\ i > 0
LastMeasurement == measurements[Len(measurements)]

\* year of a formatted timestamp, as text
YearOf(ts) == SubSeq(ts, 1, 4)
AnomalousYears == {"2029", "2080", "2090", "2099"}
\* the year is 2029 or later
FutureDated(ts) == ~StrLess(YearOf(ts), "2029")

\* C1: whenever the run has ended and all three spreadsheets were written,
\* it ended normally and every summary line was printed.
C1_OnlyWritesFail ==
    (pc \in {"done", "aborted"} /\ DOMAIN files = FILES)
        => /\ pc = "done"
           /\ \A k \in DOMAIN SummaryLines : Printed(SummaryLines[k].label) # {}

\* C2: the table returned by generate_vehicle_master has N + floor(N/10)
\* rows, the first N being the base rows VEH0001..VEH<N> and the others
\* repeating identifiers of base rows; 66 rows for N = 60.
C2_RowCount ==
    pc \notin {"start", "gen_vehicles", "gen_duplicates"}
        => /\ Len(df_vehicles) = num_vehicles + (num_vehicles \div 10)
           /\ \A k \in 1..num_vehicles :
                df_vehicles[k]["Vehicle ID"] = Some(VehicleId(k))
           /\ \A k \in (num_vehicles + 1)..Len(df_vehicles) :
                \E j \in 1..num_vehicles :
                    df_vehicles[k]["Vehicle ID"] = df_vehicles[j]["Vehicle ID"]
           /\ (num_vehicles = 60 => Len(df_vehicles) = 66)

C2_Witness ==
    pc = "write_vehicles" /\ num_vehicles = 60 /\ Len(df_vehicles) = 66

\* C3: every row after the first N equals, field by field, a row at an
\* earlier position.
C3_DuplicatesEqualEarlier ==
    \A t \in {vehicles, df_vehicles} :
        \A p \in (num_vehicles + 1)..Len(t) :
            \E q \in 1..(p - 1) :
                /\ DOMAIN t[q] = DOMAIN t[p]
                /\ \A c \in DOMAIN t[p] : t[q][c] = t[p][c]

\* a duplicate was just appended whose source is itself an appended duplicate
C3_Witness ==
    /\ pc = "gen_duplicates"
    /\ i > 0
    /\ locals.picked > num_vehicles
    /\ locals.picked < Len(vehicles)
    /\ vehicles[Len(vehicles)] = vehicles[locals.picked]

\* C4: in every row of the vehicle table, a non-null model containing
\* "Electric" (resp. "Hybrid") comes with engine type "Electric" (resp.
\* "Hybrid") unless the engine type is null.
C4_ModelEngine ==
    \A t \in {vehicles, df_vehicles} :
        \A k \in DOMAIN t :
            \A kind \in {"Electric", "Hybrid"} :
                (/\ ~IsNull(t[k]["Vehicle Model"])
                 /\ Contains(Val(t[k]["Vehicle Model"]), kind)
                 /\ ~IsNull(t[k]["Engine Type"]))
                    => Val(t[k]["Engine Type"]) = kind

\* the table holds an electric base row with its engine type, an appended
\* duplicate of a hybrid row, and an electric row whose engine type is null
C4_Witness ==
    /\ pc = "write_vehicles"
    /\ \E k \in 1..num_vehicles :
          /\ df_vehicles[k]["Vehicle Model"] = Some("Electric Bike G1")
          /\ df_vehicles[k]["Engine Type"] = Some("Electric")
    /\ \E k \in (num_vehicles + 1)..Len(df_vehicles) :
          /\ df_vehicles[k]["Vehicle Model"] = Some("Hybrid Bike H1")
          /\ df_vehicles[k]["Engine Type"] = Some("Hybrid")
    /\ \E k \in DOMAIN df_vehicles :
          /\ df_vehicles[k]["Vehicle Model"] = Some("Electric Bike G1")
          /\ IsNull(df_vehicles[k]["Engine Type"])

\* C5: the row just generated has speed 0 when its test condition is Idling
\* and a speed in 15..120 otherwise, whenever its speed is non-null.
C5_IdlingSpeed ==
    InMeasurementLoop =>
        LET speed == LastMeasurement["Speed (KMH)"]
        IN  ~IsNull(speed) =>
                IF locals.test_condition = "Idling" THEN Val(speed) = 0
                ELSE Val(speed) \in 15..120

C5_Witness ==
    /\ InMeasurementLoop
    /\ locals.test_condition = "Idling"
    /\ LastMeasurement["Speed (KMH)"] = Some(0)

\* C6: in every feedback row with a non-null comfort level and a non-null
\* comment, the comment belongs to the pool of that comfort level.
C6_CommentPool ==
    \A t \in {feedbacks, df_feedback} :
        \A k \in DOMAIN t :
            LET level == t[k]["Comfort Level"]
                comment == t[k]["Comment"]
                InPool(pool) == \E j \in DOMAIN pool : pool[j] = Val(comment)
            IN  (~IsNull(level) /\ ~IsNull(comment)) =>
                    /\ Val(level) \in {"Excellent", "Very Good"} => InPool(comments_positive)
                    /\ Val(level) \in {"Good", "Fair"} => InPool(comments_neutral)
                    /\ Val(level) \in {"Poor", "Very Poor"} => InPool(comments_negative)

\* the table holds a row of each tier with both fields present
C6_Witness ==
    /\ pc = "write_feedback"
    /\ \A tier \in {{"Excellent", "Very Good"}, {"Good", "Fair"}, {"Poor", "Very Poor"}} :
          \E k \in DOMAIN df_feedback :
              /\ ~IsNull(df_feedback[k]["Comfort Level"])
              /\ Val(df_feedback[k]["Comfort Level"]) \in tier
              /\ ~IsNull(df_feedback[k]["Comment"])

\* C7: a row of the anomalous branch has a timestamp whose year is one of
\* 2029, 2080, 2090, 2099 (so 2029 or later); a row of the normal branch has
\* None or a timestamp from 2023-01-01 00:00:00 to 2025-01-01 23:00:00; so a
\* non-null date of the table is dated 2029 or later exactly when it is
\* anomalous.
C7_DateBranches ==
    /\ InMeasurementLoop =>
          LET date == LastMeasurement["Measurement Date"]
          IN  /\ locals.anomalous =>
                    /\ ~IsNull(date)
                    /\ YearOf(Val(date)) \in AnomalousYears
                    /\ FutureDated(Val(date))
              /\ ~locals.anomalous =>
                    \/ IsNull(date)
                    \/ /\ ~StrLess(Val(date), "2023-01-01 00:00:00")
                       /\ ~StrLess("2025-01-01 23:00:00", Val(date))
                       /\ ~FutureDated(Val(date))
    /\ \A t \in {measurements, df_measurements} :
          \A d \in NonNull(t, "Measurement Date") :
              FutureDated(d) <=> YearOf(d) \in AnomalousYears

C7_Witness ==
    /\ InMeasurementLoop
    /\ locals.anomalous
    /\ YearOf(Val(LastMeasurement["Measurement Date"])) \in {"2080", "2090", "2099"}
    /\ \E d \in NonNull(measurements, "Measurement Date") : ~FutureDated(d)

\* C8: every measurement record has the nine fields of the record type, and
\* the row just generated holds the test condition drawn for it.
C8_RecordFields ==
    /\ \A k \in DOMAIN measurements :
          /\ Cardinality(DOMAIN measurements[k]) = 9
          /\ "Test Condition" \in DOMAIN measurements[k]
    /\ InMeasurementLoop =>
          \E c \in DOMAIN LastMeasurement \ {"Speed (KMH)", "Noise Level (dB)",
                                             "Vibration Frequency (Hz)", "Harshness Score"} :
              LastMeasurement[c] = Some(locals.test_condition)

\* timestamps as tuples of numbers, for the chronological order
RECURSIVE ToInt(_)
ToInt(str) ==
    IF Len(str) = 0 THEN 0
    ELSE 10 * ToInt(SubSeq(str, 1, Len(str) - 1))
         + (Ord(SubSeq(str, Len(str), Len(str))) - 48)
Parse(ts) == << ToInt(SubSeq(ts, 1, 4)), ToInt(SubSeq(ts, 6, 7)), ToInt(SubSeq(ts, 9, 10)),
                ToInt(SubSeq(ts, 12, 13)), ToInt(SubSeq(ts, 15, 16)),
                ToInt(SubSeq(ts, 18, 19)) >>
\* a is not later than b
NotLater(a, b) ==
    \/ Parse(a) = Parse(b)
    \/ \E k \in 1..6 : /\ \A j \in 1..(k - 1) : Parse(a)[j] = Parse(b)[j]
                       /\ Parse(a)[k] < Parse(b)[k]

NormalDates == {d \in NonNull(df_measurements, "Measurement Date") : ~FutureDated(d)}

\* C9 as stated: the printed date range is that of the normal timestamps,
\* so with a normal timestamp in the table the printed maximum is not an
\* anomalous date.
C9_RangeIgnoresAnomalous ==
    (Printed("Date Range") # {} /\ NormalDates # {})
        => /\ ~FutureDated(Val(PrintedValue("Date Range")[2]))
           /\ PrintedValue("Date Range")[1] = Some(StrMin(NormalDates))
           /\ PrintedValue("Date Range")[2] = Some(StrMax(NormalDates))

\* C9 amended: the printed date range is that of all non-null timestamps,
\* the anomalous ones included: its bounds are the earliest and the latest
\* non-null timestamp of the table, and the printed maximum is an anomalous
\* date whenever the table holds one.
C9_RangeOverNonNull ==
    Printed("Date Range") # {} =>
        LET all == NonNull(df_measurements, "Measurement Date")
            lo == PrintedValue("Date Range")[1]
            hi == PrintedValue("Date Range")[2]
        IN  IF all = {} THEN IsNull(lo) /\ IsNull(hi)
            ELSE /\ Val(lo) \in all /\ Val(hi) \in all
                 /\ \A d \in all : NotLater(Val(lo), d) /\ NotLater(d, Val(hi))
                 /\ (\E d \in all : FutureDated(d)) => FutureDated(Val(hi))

\* the range was printed for a table with normal and anomalous timestamps
C9_Witness ==
    /\ Printed("Date Range") # {}
    /\ NormalDates # {}
    /\ FutureDated(Val(PrintedValue("Date Range")[2]))
    /\ ~FutureDated(Val(PrintedValue("Date Range")[1]))

\* C10: each of the five fields is nulled with a probability from 5% to
\* 12%: its own draw nulls it whenever the draw is below 0.05 and keeps it
\* whenever the draw is 0.12 or more.
C10_NullRates ==
    InMeasurementLoop =>
        \A f \in {"Road Surface", "Speed (KMH)", "Noise Level (dB)",
                  "Vibration Frequency (Hz)", "Harshness Score"} :
            /\ locals.draws[f] < 50 => IsNull(LastMeasurement[f])
            /\ locals.draws[f] >= 120 => ~IsNull(LastMeasurement[f])

====
